---- MODULE Spec2Model ----
(***************************************************************************)
(* Email-open notifier (webhook path, polling path, dedup cache), LinkedIn *)
(* provider fallback chains and Discord fan-out of the Enrichment_agent    *)
(* repository, as state machines.                                          *)
(*                                                                         *)
(* Time is the reading of datetime.now(), counted in whole hours.  Every   *)
(* awaited external call (HTTP request, database commit, sleep) is one     *)
(* suspension point: the code between two suspension points is one atomic  *)
(* action, as it is under asyncio's single-threaded event loop.            *)
(***************************************************************************)
EXTENDS Integers, Sequences, FiniteSets, TLC

\* ------------------------------------------------------------------ bounds
\* Last clock reading explored.
MaxTime == 2
\* settings.CACHE_RETENTION_HOURS (environment-configured, default 24), scaled.
CACHE_RETENTION_HOURS == 1
\* Most events one poll query returns.
MaxBatch == 2
\* Most destinations in the Discord configuration.
MaxHooks == 2

\* Email identifiers (data.id of an email activity).
Ids == {"e1"}
\* No event yet (Python None).
NoneId == "None"
\* Webhook background tasks that can be in flight together.
PushTasks == {"w1", "w2"}
\* The polling task created by lifespan().
Poller == "poll"
Runs == PushTasks \cup {Poller}

VARIABLES
    now,              \* datetime.now(), in hours
    cache,            \* EventCache._cache: email_id -> time marked
    pc,               \* per task: the await it is suspended at
    rid,              \* per task: email_id of the event being ingested
    result,           \* per task: how its latest ingestion ended
    disp,             \* per task: notifications dispatched by its latest ingestion
    logged,           \* per task: analytics records written by its latest ingestion
    chk,              \* per task: state of the id's cache entry when is_notified ran
    pollQ,            \* events returned by the current tick, not yet finished
    pollK,            \* lead lookups left in get_recent_email_opens
    pollDropped,      \* items of the latest tick discarded when another item failed
    cancelRequested,  \* polling_task.cancel() has been called
    recent,           \* per id: times of its last two dispatches, if in the window
    unlogged,         \* per id: time of its last dispatch whose log write failed
    late,             \* per task: its ingestion began after such a failure
    observed,         \* the identifiers whose dispatch history is recorded
    fbCfg,            \* LinkedInScraper: the providers whose key or flag is set
    fbReq,            \* the request being resolved: company, posts or profile
    fbPc,             \* the await the resolver is suspended at, or how it ended
    fbAttempts,       \* status polls made on the current Apify run
    fbSucceeded,      \* the current Apify run reported SUCCEEDED
    fbInvoked,        \* providers invoked for the request, in order
    fbFailed,         \* providers whose invocation raised
    fbMalformed,      \* providers that answered 2xx without a usable payload
    fbOut,            \* what the resolver returned or raised
    foHooks,          \* DiscordNotifier.webhooks: the name of each destination
    foFilter,         \* webhook_name argument of the current call
    foPc,             \* send_email_open_notification: idle, sending, returned, raised
    foTodo,           \* webhooks_to_use not yet posted to (positions in foHooks)
    foOutcome,        \* per destination: outcomes of the posts made by the call
    whSecret,         \* settings.CLOSEIO_WEBHOOK_SECRET ("" when not set)
    whEpoch,          \* calendar reading of datetime.now() when now = 0
    whReq,            \* the latest request received by closeio_webhook
    whResp,           \* the response to it
    whEvent,          \* email_event built by process_webhook_event
    whRecords,        \* rows of email_opens written by log_email_open
    winClock,         \* polling loop: wall clock, in seconds
    winPc,            \* polling loop: asleep or inside a tick
    winQueries,       \* polling loop: the times its queries were issued
    rows,             \* the email_open_log table, in insertion order
    qOut,             \* the answer to the latest analytics request
    capStored,        \* number of rows (and of leads) the table holds
    capOut,           \* the answer to the latest request carrying limit or days
    coLock,           \* EventCache._lock: free, or the coroutine holding it
    coRet,            \* the latest EventCache call and what it returned
    coMarked,         \* per id: time of its latest mark since the last clear
    fcIn,             \* scrape_website: url, sitemap answer, max_pages
    fcPages           \* scrape_website: pages_scraped of the returned WebsiteData

fallbackVars == <<fbCfg, fbReq, fbPc, fbAttempts, fbSucceeded, fbInvoked, fbFailed,
                  fbMalformed, fbOut>>

fanoutVars == <<foHooks, foFilter, foPc, foTodo, foOutcome>>

notifierVars == <<now, cache, pc, rid, result, disp, logged, chk, pollQ, pollK,
                  pollDropped, cancelRequested, recent, unlogged, late, observed>>

webhookVars == <<whSecret, whEpoch, whReq, whResp, whEvent, whRecords>>

windowVars == <<winClock, winPc, winQueries>>

analyticsVars == <<rows, qOut, capStored, capOut>>

cacheOpVars == <<coLock, coRet, coMarked>>

crawlVars == <<fcIn, fcPages>>

\* The components beside the ingestion paths.
sideVars == <<analyticsVars, cacheOpVars, crawlVars>>

vars == <<notifierVars, fallbackVars, fanoutVars, webhookVars, windowVars, sideVars>>

\* ------------------------------------------------------------ EventCache
\* Variants of the cutoff comparison: an entry dropped as soon as it is one
\* retention period old, and an entry kept one hour too long.
ExpiredInclusive(ts, t) == ts <= t - CACHE_RETENTION_HOURS

ExpiredLate(ts, t) == ts + 1 < t - CACHE_RETENTION_HOURS

\* timestamp < cutoff, cutoff = now - timedelta(hours=retention)
Expired(ts, t) == ts < t - CACHE_RETENTION_HOURS

\* Variant of is_notified that skips the cleanup.
CleanupSkipped(c, t) == c

\* Variant of mark_notified that keeps the timestamp of an entry already there.
MarkNotifiedOnce(c, id, t) ==
    [e \in (DOMAIN c) \cup {id} |-> IF e \in DOMAIN c THEN c[e] ELSE t]

\* _cleanup_old_entries: delete every entry older than the cutoff.
CleanupOldEntries(c, t) ==
    [e \in {x \in DOMAIN c : ~Expired(c[x], t)} |-> c[e]]

\* Variant of is_notified that never reports an identifier as notified.
IsNotifiedIgnored(c, id, t) == FALSE

\* is_notified: membership after the cleanup (the cleanup's effect on the
\* cache is applied by the calling action).
IsNotified(c, id, t) == id \in DOMAIN CleanupOldEntries(c, t)

\* mark_notified: self._cache[email_id] = datetime.now()
MarkNotified(c, id, t) ==
    [e \in (DOMAIN c) \cup {id} |-> IF e = id THEN t ELSE c[e]]

\* What a dedup check at time t meets for id, by the retention window itself:
\* no entry, an entry marked at most one retention period ago, or an older one.
EntryState(c, id, t) ==
    IF id \notin DOMAIN c THEN "absent"
    ELSE IF t > c[id] + CACHE_RETENTION_HOURS THEN "expired"
    ELSE "live"

\* ------------------------------------------------------------------ Init
InitNotifier ==
    /\ now = 0
    /\ cache = << >>
    /\ pc = [r \in Runs |-> IF r = Poller THEN "sleep" ELSE "idle"]
    /\ rid = [r \in Runs |-> NoneId]
    /\ result = [r \in Runs |-> "none"]
    /\ disp = [r \in Runs |-> 0]
    /\ logged = [r \in Runs |-> 0]
    /\ chk = [r \in Runs |-> "none"]
    /\ pollQ = << >>
    /\ pollK = 0
    /\ pollDropped = 0
    /\ cancelRequested = FALSE
    /\ recent = [i \in Ids |-> << >>]
    /\ unlogged = << >>
    /\ late = [r \in Runs |-> FALSE]

\* ------------------------------------------------------- observation
\* The dispatch times in s that lie within one retention period before t.
InWindow(s, t) == SelectSeq(s, LAMBDA x : x >= t - CACHE_RETENTION_HOURS)

LastTwo(s) == IF Len(s) > 2 THEN SubSeq(s, Len(s) - 1, Len(s)) ELSE s

\* A notification for id leaves at time t.
Dispatched(h, id, t) ==
    IF id \in observed
    THEN [h EXCEPT ![id] = LastTwo(Append(InWindow(@, t), t))]
    ELSE h

\* The notification for id went out and its analytics write failed at time t.
LogFailed(u, id, t) ==
    IF id \in observed
    THEN [e \in (DOMAIN u) \cup {id} |-> IF e = id THEN t ELSE u[e]]
    ELSE u

\* ------------------------------------------------------- clock
Tick ==
    /\ UNCHANGED <<sideVars, observed, fallbackVars, fanoutVars, webhookVars, windowVars>>
    /\ now < MaxTime
    /\ now' = now + 1
    /\ recent' = [i \in Ids |-> InWindow(recent[i], now')]
    /\ unlogged' = [e \in {x \in DOMAIN unlogged :
                             unlogged[x] >= now' - CACHE_RETENTION_HOURS}
                      |-> unlogged[e]]
    /\ UNCHANGED <<cache, pc, rid, result, disp, logged, chk, pollQ, pollK,
                   pollDropped, cancelRequested, late>>

\* ------------------------------------------------------- push path
\* Variant of the handler's last clause: the exception leaves the task.
Propagated == "raised"

\* process_webhook_event's "except Exception as e: print(...)": the run ends
\* with the error logged and nothing raised.
CaughtError == "error"

\* process_webhook_event runs up to its first await: event filter, cache check.
ProcessWebhookEvent(t, id, relevant) ==
    /\ pc[t] = "idle"
    /\ rid' = [rid EXCEPT ![t] = id]
    /\ disp' = [disp EXCEPT ![t] = 0]
    /\ logged' = [logged EXCEPT ![t] = 0]
    /\ IF ~relevant
       THEN /\ result' = [result EXCEPT ![t] = "filtered"]
            /\ chk' = [chk EXCEPT ![t] = "none"]
            /\ UNCHANGED <<cache, pc, late>>
       ELSE /\ cache' = CleanupOldEntries(cache, now)
            /\ chk' = [chk EXCEPT ![t] = EntryState(cache, id, now)]
            /\ IF IsNotified(cache, id, now)
               THEN /\ result' = [result EXCEPT ![t] = "deduped"]
                    /\ UNCHANGED <<pc, late>>
               ELSE /\ pc' = [pc EXCEPT ![t] = "lead"]
                    /\ result' = [result EXCEPT ![t] = "none"]
                    /\ late' = [late EXCEPT ![t] = id \in DOMAIN unlogged]
    /\ UNCHANGED <<now, pollQ, pollK, pollDropped, cancelRequested, recent, unlogged>>

\* closeio_webhook hands the payload to a background task, which runs
\* process_webhook_event.
WebhookEvent(t, id, relevant) ==
    /\ UNCHANGED <<sideVars, observed, fallbackVars, fanoutVars, webhookVars, windowVars>>
    /\ ProcessWebhookEvent(t, id, relevant)

\* await closeio.get_lead(lead_id): raise_for_status() raises on failure and
\* the exception reaches the handler's outer except.
GetLeadReturns(t, ok) ==
    /\ t \in PushTasks
    /\ pc[t] = "lead"
    /\ IF ok
       THEN /\ pc' = [pc EXCEPT ![t] = "notify"]
            /\ UNCHANGED <<result, late>>
       ELSE /\ pc' = [pc EXCEPT ![t] = "idle"]
            /\ result' = [result EXCEPT ![t] = CaughtError]
            /\ late' = [late EXCEPT ![t] = FALSE]
    /\ UNCHANGED <<now, cache, rid, disp, logged, chk, pollQ, pollK,
                   pollDropped, cancelRequested, recent, unlogged>>

LeadDone(t, ok) ==
    /\ UNCHANGED <<sideVars, observed, fallbackVars, fanoutVars, webhookVars, windowVars>>
    /\ GetLeadReturns(t, ok)

\* await discord.send_email_open_notification(email_event): never raises.
NotifyDone(t) ==
    /\ UNCHANGED <<sideVars, observed, fallbackVars, fanoutVars, webhookVars, windowVars>>
    /\ t \in PushTasks
    /\ pc[t] = "notify"
    /\ disp' = [disp EXCEPT ![t] = @ + 1]
    /\ recent' = Dispatched(recent, rid[t], now)
    /\ pc' = [pc EXCEPT ![t] = "log"]
    /\ UNCHANGED <<now, cache, rid, result, logged, chk, pollQ, pollK,
                   pollDropped, cancelRequested, unlogged, late>>

\* Variant of the last two steps in which the record is committed and the
\* identifier is not marked.
LogEmailOpenSkipsMark(t, ok) ==
    /\ t \in PushTasks
    /\ pc[t] = "log"
    /\ pc' = [pc EXCEPT ![t] = "idle"]
    /\ late' = [late EXCEPT ![t] = FALSE]
    /\ IF ok
       THEN /\ logged' = [logged EXCEPT ![t] = @ + 1]
            /\ result' = [result EXCEPT ![t] = "marked"]
            /\ UNCHANGED <<unlogged, cache>>
       ELSE /\ result' = [result EXCEPT ![t] = CaughtError]
            /\ unlogged' = LogFailed(unlogged, rid[t], now)
            /\ UNCHANGED <<logged, cache>>
    /\ UNCHANGED <<now, rid, disp, chk, pollQ, pollK, pollDropped, cancelRequested,
                   recent>>

\* await log_email_open(...), then await cache.mark_notified(email_id); the
\* uncontended lock is taken without suspending, so the mark follows the
\* commit in the same step.  A failed commit raises past the mark.
LogEmailOpenReturns(t, ok) ==
    /\ t \in PushTasks
    /\ pc[t] = "log"
    /\ pc' = [pc EXCEPT ![t] = "idle"]
    /\ late' = [late EXCEPT ![t] = FALSE]
    /\ IF ok
       THEN /\ logged' = [logged EXCEPT ![t] = @ + 1]
            /\ cache' = MarkNotified(cache, rid[t], now)
            /\ result' = [result EXCEPT ![t] = "marked"]
            /\ UNCHANGED unlogged
       ELSE /\ result' = [result EXCEPT ![t] = CaughtError]
            /\ unlogged' = LogFailed(unlogged, rid[t], now)
            /\ UNCHANGED <<logged, cache>>
    /\ UNCHANGED <<now, rid, disp, chk, pollQ, pollK, pollDropped, cancelRequested,
                   recent>>

LogDone(t, ok) ==
    /\ UNCHANGED <<sideVars, observed, fallbackVars, fanoutVars, webhookVars, windowVars>>
    /\ LogEmailOpenReturns(t, ok)

\* ------------------------------------------------------- pull path
\* The rest of a tick's for loop from the head of q, run up to the next await:
\* items the cache reports notified are skipped (continue); any other item
\* suspends at the notification call.  An exhausted list ends the tick and the
\* while loop goes back to sleep.  last is the record of the item before q.
RECURSIVE PollItems(_, _, _, _)
PollItems(q, c, t, last) ==
    IF q = << >>
    THEN [pc |-> "sleep", q |-> << >>, c |-> c, run |-> last, dropped |-> 0]
    ELSE LET id == Head(q)
             st == EntryState(c, id, t)
         IN  IF IsNotified(c, id, t)
             THEN PollItems(Tail(q), CleanupOldEntries(c, t), t,
                            [rid |-> id, result |-> "deduped", chk |-> st,
                             disp |-> 0, logged |-> 0])
             ELSE [pc |-> "notify", q |-> q, c |-> CleanupOldEntries(c, t),
                   run |-> [rid |-> id, result |-> "none", chk |-> st,
                            disp |-> 0, logged |-> 0],
                   dropped |-> 0]

\* The poller's variables as PollItems leaves them.
PollContinue(nx) ==
    /\ pc' = [pc EXCEPT ![Poller] = nx.pc]
    /\ pollQ' = nx.q
    /\ pollDropped' = nx.dropped
    /\ cache' = nx.c
    /\ rid' = [rid EXCEPT ![Poller] = nx.run.rid]
    /\ result' = [result EXCEPT ![Poller] = nx.run.result]
    /\ chk' = [chk EXCEPT ![Poller] = nx.run.chk]
    /\ disp' = [disp EXCEPT ![Poller] = nx.run.disp]
    /\ logged' = [logged EXCEPT ![Poller] = nx.run.logged]
    /\ late' = [late EXCEPT ![Poller] =
                   nx.pc = "notify" /\ nx.run.rid \in DOMAIN unlogged]

\* The record of the poller's latest item.
PollRecord ==
    [rid |-> rid[Poller], result |-> result[Poller], chk |-> chk[Poller],
     disp |-> disp[Poller], logged |-> logged[Poller]]

\* Event lists a poll query can return (events whose opens changed).
Batches == UNION {[1..n -> Ids] : n \in 0..MaxBatch}

\* await asyncio.sleep(POLLING_INTERVAL_SECONDS) returns.
SleepDone ==
    /\ UNCHANGED <<sideVars, observed, fallbackVars, fanoutVars, webhookVars, windowVars>>
    /\ pc[Poller] = "sleep"
    /\ pc' = [pc EXCEPT ![Poller] = "query"]
    /\ pollDropped' = 0
    /\ UNCHANGED <<now, cache, rid, result, disp, logged, chk, pollQ, pollK,
                   cancelRequested, recent, unlogged, late>>

\* get_recent_email_opens: the event-log request returns evs; the lead
\* lookups follow, one await per event.
QueryDone(evs) ==
    /\ UNCHANGED <<sideVars, observed, fallbackVars, fanoutVars, webhookVars, windowVars>>
    /\ pc[Poller] = "query"
    /\ pollQ' = evs
    /\ pollK' = Len(evs)
    /\ pc' = [pc EXCEPT ![Poller] = IF evs = << >> THEN "sleep" ELSE "lookup"]
    /\ UNCHANGED <<now, cache, rid, result, disp, logged, chk, pollDropped,
                   cancelRequested, recent, unlogged, late>>

\* Variant of the failed query in which the exception ends the while loop.
QueryFailCrashes ==
    /\ UNCHANGED <<sideVars, observed, fallbackVars, fanoutVars, webhookVars, windowVars>>
    /\ pc[Poller] = "query"
    /\ pc' = [pc EXCEPT ![Poller] = "done"]
    /\ UNCHANGED <<now, cache, rid, result, disp, logged, chk, pollQ, pollK,
                   pollDropped, cancelRequested, recent, unlogged, late>>

\* The event-log request fails: raise_for_status() raises into the loop's
\* except Exception and the loop goes back to sleep.
QueryFail ==
    /\ UNCHANGED <<sideVars, observed, fallbackVars, fanoutVars, webhookVars, windowVars>>
    /\ pc[Poller] = "query"
    /\ pc' = [pc EXCEPT ![Poller] = "sleep"]
    /\ UNCHANGED <<now, cache, rid, result, disp, logged, chk, pollQ, pollK,
                   pollDropped, cancelRequested, recent, unlogged, late>>

\* One lead lookup of get_recent_email_opens returns or raises; the bare
\* except turns whatever is raised into lead_name "Unknown".  After the last
\* lookup the list is returned and the for loop starts.
LookupStep ==
    /\ pollK' = pollK - 1
    /\ IF pollK > 1
       THEN UNCHANGED <<pc, pollQ, pollDropped, cache, rid, result, chk, disp, logged,
                        late>>
       ELSE PollContinue(PollItems(pollQ, cache, now, PollRecord))

LookupDone(ok) ==
    /\ UNCHANGED <<sideVars, observed, fallbackVars, fanoutVars, webhookVars, windowVars>>
    /\ pc[Poller] = "lookup"
    /\ ok \in BOOLEAN
    /\ LookupStep
    /\ UNCHANGED <<now, cancelRequested, recent, unlogged>>

\* await discord.send_email_open_notification(email_event) for the item.
PollNotifyDone ==
    /\ UNCHANGED <<sideVars, observed, fallbackVars, fanoutVars, webhookVars, windowVars>>
    /\ pc[Poller] = "notify"
    /\ disp' = [disp EXCEPT ![Poller] = @ + 1]
    /\ recent' = Dispatched(recent, rid[Poller], now)
    /\ pc' = [pc EXCEPT ![Poller] = "log"]
    /\ UNCHANGED <<now, cache, rid, result, logged, chk, pollQ, pollK,
                   pollDropped, cancelRequested, unlogged, late>>

\* await log_email_open(...), mark_notified, then on to the next item.  A
\* failed commit raises out of the for loop into the except Exception of the
\* while loop: the rest of the tick's items are dropped.
PollLogDone(ok) ==
    /\ UNCHANGED <<sideVars, observed, fallbackVars, fanoutVars, webhookVars, windowVars>>
    /\ pc[Poller] = "log"
    /\ IF ok
       THEN /\ PollContinue(PollItems(Tail(pollQ),
                                      MarkNotified(cache, rid[Poller], now), now,
                                      [PollRecord EXCEPT !.result = "marked",
                                                         !.logged = @ + 1]))
            /\ UNCHANGED unlogged
       ELSE /\ pc' = [pc EXCEPT ![Poller] = "sleep"]
            /\ pollQ' = << >>
            /\ pollDropped' = Len(pollQ) - 1
            /\ result' = [result EXCEPT ![Poller] = "error"]
            /\ unlogged' = LogFailed(unlogged, rid[Poller], now)
            /\ late' = [late EXCEPT ![Poller] = FALSE]
            /\ UNCHANGED <<cache, rid, chk, disp, logged>>
    /\ UNCHANGED <<now, pollK, cancelRequested, recent>>

\* lifespan() shutdown: polling_task.cancel().  CancelledError is raised at
\* the await the task is suspended at.  Inside get_recent_email_opens' lead
\* lookups the bare except catches it like any failed lookup; everywhere else
\* it reaches "except asyncio.CancelledError: break".
Cancel ==
    /\ UNCHANGED <<sideVars, observed, fallbackVars, fanoutVars, webhookVars, windowVars>>
    /\ ~cancelRequested
    /\ pc[Poller] # "done"
    /\ cancelRequested' = TRUE
    /\ IF pc[Poller] = "lookup"
       THEN LookupStep
       ELSE /\ pc' = [pc EXCEPT ![Poller] = "done"]
            /\ pollQ' = << >>
            /\ late' = [late EXCEPT ![Poller] = FALSE]
            /\ UNCHANGED <<cache, rid, result, chk, disp, logged, pollK, pollDropped>>
    /\ UNCHANGED <<now, recent, unlogged>>

\* ------------------------------------------- LinkedInScraper fallback
\* Wait for completion: max_attempts = 30 status polls of an Apify run.
max_attempts == 30

Providers == {"bright_data", "apify", "joeyism"}
Requests == {"company", "posts", "profile"}

\* Nothing returned yet.
NoResult == [kind |-> "none", tags |-> {}, empty |-> TRUE, error |-> ""]

\* raise ValueError(msg)
Raised(msg) == [kind |-> "error", tags |-> {}, empty |-> TRUE, error |-> msg]

\* Variants of the chain's if statements: every provider tried whether or not
\* its key is set.
AttemptAny(req, k, cfg) ==
    IF k = 1 THEN "bright_data"
    ELSE IF k <= 2 /\ req # "profile" THEN "apify"
    ELSE IF k <= 3 /\ req = "company" THEN "joeyism"
    ELSE "none"

\* The provider the chain of req invokes next, from its k-th if statement on:
\* "if self.brightdata_key", "if self.apify_key" (company and posts),
\* "if self.use_joeyism" (company only).
Attempt(req, k, cfg) ==
    IF k = 1 /\ "bright_data" \in cfg THEN "bright_data"
    ELSE IF k <= 2 /\ req # "profile" /\ "apify" \in cfg THEN "apify"
    ELSE IF k <= 3 /\ req = "company" /\ "joeyism" \in cfg THEN "joeyism"
    ELSE "none"

\* The first await of a provider's method.
FirstAwait(p) ==
    IF p = "bright_data" THEN "bd"
    ELSE IF p = "apify" THEN "apify_start"
    ELSE "joeyism"

\* The statement after the last if of a chain: scrape_company raises,
\* get_company_posts returns [], scrape_profile returns {}.
Exhausted(req) ==
    IF req = "company"
    THEN [pc |-> "raised", out |-> Raised("No LinkedIn scraping method available")]
    ELSE IF req = "posts"
    THEN [pc |-> "returned",
          out |-> [kind |-> "post_list", tags |-> {}, empty |-> TRUE, error |-> ""]]
    ELSE [pc |-> "returned",
          out |-> [kind |-> "profile_dict", tags |-> {}, empty |-> TRUE, error |-> ""]]

\* The chain of req runs from its k-th if statement up to the next await or
\* to its end; inv lists the providers invoked before.
Chain(req, k, inv) ==
    LET p == Attempt(req, k, fbCfg)
    IN  /\ fbAttempts' = 0
        /\ fbSucceeded' = FALSE
        /\ IF p = "none"
           THEN /\ fbPc' = Exhausted(req).pc
                /\ fbOut' = Exhausted(req).out
                /\ fbInvoked' = inv
           ELSE /\ fbPc' = FirstAwait(p)
                /\ fbOut' = NoResult
                /\ fbInvoked' = Append(inv, p)

\* scrape_company / get_company_posts / scrape_profile is called.
Request(req) ==
    /\ UNCHANGED <<sideVars, notifierVars, fanoutVars, webhookVars, windowVars>>
    /\ fbPc \in {"idle", "returned", "raised"}
    /\ fbReq' = req
    /\ fbFailed' = {}
    /\ fbMalformed' = {}
    /\ Chain(req, 1, << >>)
    /\ UNCHANGED fbCfg

\* What the three Bright Data methods build from a 2xx response whose "data"
\* holds an item (hasData) or is missing or empty: a company record of the
\* item's fields, all None without an item, always with source="bright_data";
\* a list with one tagged post per item; the item itself, or {}, for a profile.
BrightDataResult(req, hasData) ==
    IF req = "company"
    THEN [kind |-> "company_record", tags |-> {"bright_data"}, empty |-> ~hasData,
          error |-> ""]
    ELSE IF req = "posts"
    THEN [kind |-> "post_list", tags |-> IF hasData THEN {"bright_data"} ELSE {},
          empty |-> ~hasData, error |-> ""]
    ELSE [kind |-> "profile_dict", tags |-> {}, empty |-> ~hasData, error |-> ""]

\* The Bright Data request returns: raise_for_status() raises ("error") and
\* the chain's except goes on to the next if; any 2xx body is returned.
BrightDataDone(resp) ==
    /\ UNCHANGED <<sideVars, notifierVars, fanoutVars, webhookVars, windowVars>>
    /\ fbPc = "bd"
    /\ IF resp = "error"
       THEN /\ fbFailed' = fbFailed \cup {"bright_data"}
            /\ Chain(fbReq, 2, fbInvoked)
            /\ UNCHANGED fbMalformed
       ELSE /\ fbPc' = "returned"
            /\ fbOut' = BrightDataResult(fbReq, resp = "data")
            /\ fbMalformed' = IF resp = "nodata"
                              THEN fbMalformed \cup {"bright_data"}
                              ELSE fbMalformed
            /\ UNCHANGED <<fbAttempts, fbSucceeded, fbInvoked, fbFailed>>
    /\ UNCHANGED <<fbCfg, fbReq>>

\* An Apify request raised: scrape_company goes on to joeyism;
\* get_company_posts returns [] (its chain has no third if).
ApifyFailed ==
    /\ fbFailed' = fbFailed \cup {"apify"}
    /\ Chain(fbReq, 3, fbInvoked)
    /\ UNCHANGED <<fbCfg, fbReq, fbMalformed>>

\* POST .../runs returns.
ApifyStartDone(ok) ==
    /\ UNCHANGED <<sideVars, notifierVars, fanoutVars, webhookVars, windowVars>>
    /\ fbPc = "apify_start"
    /\ IF ok
       THEN /\ fbPc' = "apify_poll"
            /\ UNCHANGED <<fbCfg, fbReq, fbAttempts, fbSucceeded, fbInvoked, fbFailed,
                           fbMalformed, fbOut>>
       ELSE ApifyFailed

\* A wait that only a SUCCEEDED status ends ("while True"), for comparison.
PollEndsOnSuccess(status, made) == status = "SUCCEEDED"

\* The wait is over after the status request numbered "made": the break on
\* SUCCEEDED, or range(max_attempts) running out.
PollEnds(status, made) == status = "SUCCEEDED" \/ made = max_attempts

\* One turn of "for _ in range(max_attempts)": sleep, GET the run's status.
\* SUCCEEDED breaks out of the loop; after max_attempts turns the loop ends
\* by itself; either way the dataset request follows.
ApifyStatusDone(resp) ==
    /\ UNCHANGED <<sideVars, notifierVars, fanoutVars, webhookVars, windowVars>>
    /\ fbPc = "apify_poll"
    /\ IF resp = "error"
       THEN ApifyFailed
       ELSE /\ fbAttempts' = fbAttempts + 1
            /\ fbSucceeded' = (resp = "SUCCEEDED")
            /\ fbPc' = IF PollEnds(resp, fbAttempts + 1)
                       THEN "apify_results"
                       ELSE "apify_poll"
            /\ UNCHANGED <<fbCfg, fbReq, fbInvoked, fbFailed, fbMalformed, fbOut>>

\* What the two Apify methods build from the dataset: results[0] or {} as a
\* company record with source="apify"; one tagged post per item.
ApifyResult(req, hasItems) ==
    IF req = "company"
    THEN [kind |-> "company_record", tags |-> {"apify"}, empty |-> ~hasItems,
          error |-> ""]
    ELSE [kind |-> "post_list", tags |-> IF hasItems THEN {"apify"} ELSE {},
          empty |-> ~hasItems, error |-> ""]

\* GET .../dataset/items returns.
ApifyResultsDone(resp) ==
    /\ UNCHANGED <<sideVars, notifierVars, fanoutVars, webhookVars, windowVars>>
    /\ fbPc = "apify_results"
    /\ IF resp = "error"
       THEN ApifyFailed
       ELSE /\ fbPc' = "returned"
            /\ fbOut' = ApifyResult(fbReq, resp = "items")
            /\ fbMalformed' = IF resp = "empty" \/ ~fbSucceeded
                              THEN fbMalformed \cup {"apify"}
                              ELSE fbMalformed
            /\ UNCHANGED <<fbCfg, fbReq, fbAttempts, fbSucceeded, fbInvoked, fbFailed>>

\* _scrape_company_joeyism returns a record with source="joeyism" or raises;
\* scrape_company turns whatever it raises into a ValueError.
JoeyismDone(ok) ==
    /\ UNCHANGED <<sideVars, notifierVars, fanoutVars, webhookVars, windowVars>>
    /\ fbPc = "joeyism"
    /\ IF ok
       THEN /\ fbPc' = "returned"
            /\ fbOut' = [kind |-> "company_record", tags |-> {"joeyism"},
                         empty |-> FALSE, error |-> ""]
            /\ UNCHANGED fbFailed
       ELSE /\ fbPc' = "raised"
            /\ fbOut' = Raised("All LinkedIn scraping methods failed")
            /\ fbFailed' = fbFailed \cup {"joeyism"}
    /\ UNCHANGED <<fbCfg, fbReq, fbAttempts, fbSucceeded, fbInvoked, fbMalformed>>

InitResolver ==
    /\ fbReq = "none"
    /\ fbPc = "idle"
    /\ fbAttempts = 0
    /\ fbSucceeded = FALSE
    /\ fbInvoked = << >>
    /\ fbFailed = {}
    /\ fbMalformed = {}
    /\ fbOut = NoResult

\* ------------------------------------------------ DiscordNotifier fan-out
\* Destination names of the configuration.
HookNames == {"default", "sales"}
\* webhook_name=None
NoName == "None"

\* Lists _load_webhooks can return without __init__ raising: at least one entry.
HookLists == UNION {[1..n -> HookNames] : n \in 1..MaxHooks}

\* "if webhook_name:" - None and "" are both false.
Truthy(name) == name # NoName /\ name # ""

RECURSIVE Positions(_, _, _)
\* [w for w in self.webhooks if w["name"] == webhook_name], as positions from i.
Positions(hooks, name, i) ==
    IF i > Len(hooks) THEN << >>
    ELSE IF hooks[i] = name THEN <<i>> \o Positions(hooks, name, i + 1)
    ELSE Positions(hooks, name, i + 1)

\* webhooks_to_use
WebhooksToUse(hooks, name) ==
    IF Truthy(name) THEN Positions(hooks, name, 1) ELSE [i \in 1..Len(hooks) |-> i]

\* Variant of the loop body without the try/except: a failed post propagates.
AfterPostUnguarded(outcome, rest) ==
    IF outcome # "ok" THEN "raised"
    ELSE IF rest = << >> THEN "returned" ELSE "sending"

\* The loop body: post, raise_for_status, "except Exception" prints and the
\* loop goes on; the call returns after the last destination.
AfterPost(outcome, rest) ==
    IF rest = << >> THEN "returned" ELSE "sending"

\* send_email_open_notification(event, webhook_name) up to its first post.
SendCall(name) ==
    /\ foPc \in {"idle", "returned"}
    /\ foFilter' = name
    /\ foTodo' = WebhooksToUse(foHooks, name)
    /\ foPc' = IF WebhooksToUse(foHooks, name) = << >> THEN "returned" ELSE "sending"
    /\ foOutcome' = [i \in 1..Len(foHooks) |-> << >>]
    /\ UNCHANGED foHooks

\* The notifier called on its own.
Send(name) ==
    /\ UNCHANGED <<sideVars, notifierVars, fallbackVars, webhookVars, windowVars>>
    /\ SendCall(name)

\* await self.client.post(webhook["url"], ...) for the head of the list ends:
\* delivered, an error status, or a transport error.
PostReturns(outcome) ==
    /\ foPc = "sending"
    /\ foOutcome' = [foOutcome EXCEPT ![Head(foTodo)] = Append(@, outcome)]
    /\ foTodo' = Tail(foTodo)
    /\ foPc' = AfterPost(outcome, Tail(foTodo))
    /\ UNCHANGED <<foHooks, foFilter>>

PostDone(outcome) ==
    /\ UNCHANGED <<sideVars, notifierVars, fallbackVars, webhookVars, windowVars>>
    /\ PostReturns(outcome)

\* process_webhook_event reaches "await app.state.discord
\* .send_email_open_notification(email_event)": the call is made with no
\* webhook_name and runs up to its first post.
NotifyCall(t) ==
    /\ UNCHANGED <<sideVars, observed, fallbackVars, webhookVars, windowVars>>
    /\ t \in PushTasks
    /\ pc[t] = "notify"
    /\ SendCall(NoName)
    /\ pc' = [pc EXCEPT ![t] = IF foPc' = "returned" THEN "log" ELSE "posting"]
    /\ UNCHANGED <<now, cache, rid, result, disp, logged, chk, pollQ, pollK,
                   pollDropped, cancelRequested, recent, unlogged, late>>

\* One post of that call ends; after the last one the call returns, without
\* a value and without raising, and the handler goes on to log_email_open.
NotifyPosted(t, outcome) ==
    /\ UNCHANGED <<sideVars, observed, fallbackVars, webhookVars, windowVars>>
    /\ t \in PushTasks
    /\ pc[t] = "posting"
    /\ PostReturns(outcome)
    /\ IF foPc' = "returned"
       THEN /\ pc' = [pc EXCEPT ![t] = "log"]
            /\ disp' = [disp EXCEPT ![t] = @ + 1]
            /\ recent' = Dispatched(recent, rid[t], now)
       ELSE UNCHANGED <<pc, disp, recent>>
    /\ UNCHANGED <<now, cache, rid, result, logged, chk, pollQ, pollK,
                   pollDropped, cancelRequested, unlogged, late>>

InitFanout ==
    /\ foFilter = NoName
    /\ foPc = "idle"
    /\ foTodo = << >>
    /\ foOutcome = [i \in 1..Len(foHooks) |-> << >>]

\* ----------------------------------------------------- webhook endpoint
\* Most rows log_email_open writes in one exploration.
MaxRecords == 2

\* Values of CLOSEIO_WEBHOOK_SECRET: not set, or a secret.
Secrets == {"", "s1"}

\* Calendar readings: Monday = 0 .. Sunday = 6, hour of day.
Epochs == {[weekday |-> 2, hour |-> 10], [weekday |-> 6, hour |-> 23]}

\* datetime.now() as a calendar reading, t hours after the epoch.
Calendar(epoch, t) ==
    [weekday |-> (epoch.weekday + ((epoch.hour + t) \div 24)) % 7,
     hour |-> (epoch.hour + t) % 24]

\* opens[-1].opened_at values a payload carries.
OpenTimes == {[weekday |-> 2, hour |-> 10]}

\* A body that request.json() cannot parse.
NotJson ==
    [json |-> FALSE, object_type |-> "", action |-> "", changed_fields |-> {},
     id |-> "e1", opened_at |-> [weekday |-> 2, hour |-> 10]]

\* An email-open event: event.object_type, event.action,
\* event.changed_fields, event.data.id, open time of event.data.opens[-1].
OpenEvent(id, at) ==
    [json |-> TRUE, object_type |-> "activity.email", action |-> "updated",
     changed_fields |-> {"opens"}, id |-> id, opened_at |-> at]

\* Request bodies: email-open events, the same with another object type,
\* another action or other changed fields, and a body that is not JSON.
Bodies ==
    UNION {{OpenEvent(id, at),
            [OpenEvent(id, at) EXCEPT !.object_type = "lead"],
            [OpenEvent(id, at) EXCEPT !.action = "created"],
            [OpenEvent(id, at) EXCEPT !.changed_fields = {"status"}]} :
           id \in Ids, at \in OpenTimes} \cup {NotJson}

\* close-sig-timestamp header: missing or empty (<< >>), or a value.
Timestamps == {<< >>, <<1>>}

\* hmac.new(key, message, hashlib.sha256).hexdigest(), taken as collision-free.
HmacSha256(key, message) == [kind |-> "hex", key |-> key, message |-> message]

\* close-sig-hash header: missing or empty, or text with a non-ASCII character.
NoSignature == [kind |-> "absent", key |-> "", message |-> << >>]

NonAsciiSignature == [kind |-> "non_ascii", key |-> "", message |-> << >>]

\* message = timestamp.encode() + payload
Message(timestamp, body) == timestamp \o <<body>>

\* The body with its action field changed.
Tampered(body) ==
    [body EXCEPT !.action = IF @ = "updated" THEN "created" ELSE "updated"]

\* Signatures a sender can supply for a request: none, the sender's HMAC of
\* what is sent, the HMAC of another body, the HMAC under another key, or
\* text that is not a hex digest.
SignatureOf(how, timestamp, body) ==
    CASE how = "none" -> NoSignature
      [] how = "good" -> HmacSha256("s1", Message(timestamp, body))
      [] how = "other_body" -> HmacSha256("s1", Message(timestamp, Tampered(body)))
      [] how = "other_key" -> HmacSha256("k0", Message(timestamp, body))
      [] OTHER -> NonAsciiSignature

\* verify_webhook_signature: True without a secret; otherwise
\* hmac.compare_digest(expected, signature), which raises TypeError for a
\* str with non-ASCII characters.
VerifyWebhookSignature(secret, body, timestamp, signature) ==
    IF secret = "" THEN "True"
    ELSE IF signature.kind = "non_ascii" THEN "TypeError"
    ELSE IF HmacSha256(secret, Message(timestamp, body)) = signature THEN "True"
    ELSE "False"

\* closeio_webhook up to the hand-off: the response the sender gets.  An
\* exception leaving the handler (TypeError, JSON decode error) is answered
\* with 500 by the framework.
Respond(secret, req) ==
    LET checked == VerifyWebhookSignature(secret, req.body, req.timestamp,
                                          req.signature)
    IN  IF secret # "" /\ (req.signature.kind = "absent" \/ req.timestamp = << >>)
        THEN "401"
        ELSE IF secret # "" /\ checked = "False" THEN "401"
        ELSE IF secret # "" /\ checked = "TypeError" THEN "500"
        ELSE IF ~req.body.json THEN "500"
        ELSE "received"

\* Variant of the event filter without the action test.
RelevantAnyAction(body) ==
    body.object_type = "activity.email" /\ "opens" \in body.changed_fields

\* process_webhook_event's filter: the two early returns.
Relevant(body) ==
    /\ ~(body.object_type # "activity.email" \/ body.action # "updated")
    /\ ~("opens" \notin body.changed_fields)

NoRequest == [timestamp |-> << >>, signature |-> NoSignature, body |-> NotJson]

NoEvent == [lead_name |-> "", opened_at |-> [weekday |-> 0, hour |-> 0]]

\* closeio_webhook receives a request, answers it, and for an accepted one
\* the background task runs process_webhook_event up to its first await.
Receive(timestamp, how, body) ==
    LET req == [timestamp |-> timestamp,
                signature |-> SignatureOf(how, timestamp, body),
                body |-> body]
    IN  /\ pc["w1"] = "idle"
        /\ Len(whRecords) < MaxRecords
        /\ whReq' = req
        /\ whResp' = Respond(whSecret, req)
        /\ whEvent' = NoEvent
        /\ IF Respond(whSecret, req) = "received"
           THEN ProcessWebhookEvent("w1", body.id, Relevant(body))
           ELSE UNCHANGED <<now, cache, pc, rid, result, disp, logged, chk, pollQ,
                            pollK, pollDropped, cancelRequested, recent, unlogged,
                            late>>
        /\ UNCHANGED <<sideVars, observed, fallbackVars, fanoutVars, windowVars, whSecret,
                       whEpoch, whRecords>>

\* await closeio.get_lead(lead_id) returns for the request's task, then
\* lead_name = lead_info.get("display_name", "Unknown") and the EmailOpenEvent
\* is built with opened_at=datetime.now().
ReceiveLeadDone(resp) ==
    /\ GetLeadReturns("w1", resp # "error")
    /\ whEvent' = IF resp = "error" THEN NoEvent
                  ELSE [lead_name |-> IF resp = "named" THEN "Acme" ELSE "Unknown",
                        opened_at |-> Calendar(whEpoch, now)]
    /\ UNCHANGED <<sideVars, observed, fallbackVars, fanoutVars, windowVars, whSecret,
                   whEpoch, whReq, whResp, whRecords>>

\* log_email_open: the row gets hour_opened = opened_at.hour and
\* day_of_week = opened_at.weekday() of the email_event; then mark_notified.
ReceiveLogDone(ok) ==
    /\ LogEmailOpenReturns("w1", ok)
    /\ whRecords' = IF ok
                    THEN Append(whRecords,
                                [email_id |-> rid["w1"],
                                 lead_name |-> whEvent.lead_name,
                                 hour_opened |-> whEvent.opened_at.hour,
                                 day_of_week |-> whEvent.opened_at.weekday])
                    ELSE whRecords
    /\ UNCHANGED <<sideVars, observed, fallbackVars, fanoutVars, windowVars, whSecret,
                   whEpoch, whReq, whResp, whEvent>>

InitGate ==
    /\ whReq = NoRequest
    /\ whResp = "none"
    /\ whEvent = NoEvent
    /\ whRecords = << >>

\* ------------------------------------------------- polling query windows
\* settings.POLLING_INTERVAL_SECONDS and settings.POLLING_LOOKBACK_MINUTES
\* (defaults).
POLLING_INTERVAL_SECONDS == 300

POLLING_LOOKBACK_MINUTES == 10

\* Most ticks followed.
MaxTicks == 4

\* Seconds one tick's awaits can take together: the event-log request, the
\* lead lookups and, per item, the notification posts and the database write.
TickDurations == {0, 120, 400}

\* await asyncio.sleep(settings.POLLING_INTERVAL_SECONDS) returns.
WindowSleepDone ==
    /\ winPc = "sleep"
    /\ Len(winQueries) < MaxTicks
    /\ winClock' = winClock + POLLING_INTERVAL_SECONDS
    /\ winPc' = "query"
    /\ UNCHANGED winQueries
    /\ UNCHANGED <<sideVars, notifierVars, fallbackVars, fanoutVars, webhookVars>>

\* get_recent_email_opens is entered: now = datetime.now(),
\* lookback = now - timedelta(minutes=minutes), date_created__gt = lookback.
WindowQuery ==
    /\ winPc = "query"
    /\ winQueries' = Append(winQueries, winClock)
    /\ winPc' = "tick"
    /\ UNCHANGED winClock
    /\ UNCHANGED <<sideVars, notifierVars, fallbackVars, fanoutVars, webhookVars>>

\* The rest of the tick runs to the end of the for loop (or to the except
\* clause) and the while loop starts over with the sleep.
WindowTickDone(d) ==
    /\ winPc = "tick"
    /\ winClock' = winClock + d
    /\ winPc' = "sleep"
    /\ UNCHANGED winQueries
    /\ UNCHANGED <<sideVars, notifierVars, fallbackVars, fanoutVars, webhookVars>>

\* The query window of a tick whose query is issued at q.
WindowStart(q) == q - POLLING_LOOKBACK_MINUTES * 60

InitWindow ==
    /\ winClock = 0
    /\ winPc = "sleep"
    /\ winQueries = << >>

\* ------------------------------------------------------ analytics store
\* Most rows of email_open_log in one exploration.
MaxRows == 3

Leads == {"L1", "L2"}
\* A lead no row refers to.
OtherLead == "L9"
Hours == {9, 10}
\* date_opened, as the day of January 2025: the 5th and the 6th.
Dates == {5, 6}

\* opened_at.weekday() of a day of January 2025 (the 6th is a Monday).
Weekday(d) == (d + 1) % 7

\* The rows log_email_open can build: hour_opened and day_of_week are taken
\* from the same opened_at as date_opened.
EmailOpenLogs ==
    {[lead_id |-> l, hour_opened |-> h, date_opened |-> d, day_of_week |-> Weekday(d)] :
        l \in Leads, h \in Hours, d \in Dates}

\* The autoincrement primary keys of the table.
RowIds(t) == 1..Len(t)

\* Variant of the write: a row of the same lead is replaced.
Upsert(t, rec) ==
    IF \E i \in RowIds(t) : t[i].lead_id = rec.lead_id
    THEN [i \in RowIds(t) |-> IF t[i].lead_id = rec.lead_id THEN rec ELSE t[i]]
    ELSE Append(t, rec)

\* session.add(log_entry); await session.commit()
Insert(t, rec) == Append(t, rec)

\* min(limit, 500), min(limit, 100), min(days, 365)
Capped(value, cap) == IF value < cap THEN value ELSE cap

\* LIMIT n over k rows in SQLite (the configured sqlite+aiosqlite engine): a
\* negative n means no upper bound.
SqlLimit(k, n) == IF n < 0 THEN k ELSE IF n < k THEN n ELSE k

\* ORDER BY opened_at DESC LIMIT n over the rows sel: any n rows none of
\* which is older than a row left out (the order among equal opened_at
\* values is the engine's).
OpenedAt(r) == r.date_opened * 24 + r.hour_opened

TopByOpenedAt(t, sel, n) ==
    {S \in SUBSET sel :
        /\ Cardinality(S) = SqlLimit(Cardinality(sel), n)
        /\ \A i \in S, j \in sel \ S : OpenedAt(t[i]) >= OpenedAt(t[j])}

\* Variant of COUNT(*): COUNT(DISTINCT lead_id).
CountDistinctLeads(t, sel) == Cardinality({t[i].lead_id : i \in sel})

\* COUNT(*) over the rows sel.
CountRows(t, sel) == Cardinality(sel)

RECURSIVE Ascending(_)
\* ORDER BY over a set of distinct integers.
Ascending(S) ==
    IF S = {} THEN << >>
    ELSE LET m == CHOOSE x \in S : \A y \in S : x <= y
         IN  <<m>> \o Ascending(S \ {m})

\* day_names of get_opens_by_day_of_week, indexed from 0.
day_names ==
    <<"Monday", "Tuesday", "Wednesday", "Thursday", "Friday", "Saturday", "Sunday">>

\* SELECT hour_opened, COUNT(*), COUNT(DISTINCT lead_id) ... GROUP BY
\* hour_opened ORDER BY hour_opened
OpensByTimeOfDay(t) ==
    LET buckets == Ascending({t[i].hour_opened : i \in RowIds(t)})
    IN  [k \in 1..Len(buckets) |->
            LET sel == {i \in RowIds(t) : t[i].hour_opened = buckets[k]}
            IN  [bucket |-> buckets[k], name |-> "",
                 opens_count |-> CountRows(t, sel),
                 unique_leads |-> CountDistinctLeads(t, sel)]]

\* The same grouped by day_of_week, each row with day_names[row[0]].
OpensByDayOfWeek(t) ==
    LET buckets == Ascending({t[i].day_of_week : i \in RowIds(t)})
    IN  [k \in 1..Len(buckets) |->
            LET sel == {i \in RowIds(t) : t[i].day_of_week = buckets[k]}
            IN  [bucket |-> buckets[k], name |-> day_names[buckets[k] + 1],
                 opens_count |-> CountRows(t, sel),
                 unique_leads |-> CountDistinctLeads(t, sel)]]

\* GROUP BY lead_id, lead_name ORDER BY total_opens DESC LIMIT n: the orders
\* of the leads present that never put a smaller count first, cut at n.
TopLeads(t, n) ==
    LET present == {t[i].lead_id : i \in RowIds(t)}
        total(l) == CountRows(t, {i \in RowIds(t) : t[i].lead_id = l})
        orders == {o \in [1..Cardinality(present) -> present] :
                      /\ \A a, b \in DOMAIN o : a # b => o[a] # o[b]
                      /\ \A a, b \in DOMAIN o : a < b => total(o[a]) >= total(o[b])}
    IN  {[k \in 1..SqlLimit(Cardinality(present), n) |->
            [bucket |-> 0, name |-> o[k], opens_count |-> total(o[k]),
             unique_leads |-> 1]] : o \in orders}

\* Variant of the by-lead endpoint without its "if not opens" test.
AlwaysFound(opens) == "200"

\* get_opens_by_lead_endpoint: "if not opens: raise HTTPException(404, ...)"
ByLeadStatus(opens) == IF opens = {} THEN "404" ELSE "200"

\* An answer: the endpoint, its arguments, the status, the ids of the rows
\* returned and the rows of a grouped result.
Answer(endpoint, arg, status, ids, groups) ==
    [endpoint |-> endpoint, arg |-> arg, status |-> status, ids |-> ids,
     groups |-> groups]

NoAnswer == Answer("none", << >>, "none", {}, << >>)

\* log_email_open(...) is awaited: the row is committed, or the commit raises
\* and the session is discarded with the pending row.
LogEmailOpen(rec, ok) ==
    /\ Len(rows) < MaxRows
    /\ rows' = IF ok THEN Insert(rows, rec) ELSE rows
    /\ qOut' = Answer("log_email_open", <<rec>>, IF ok THEN "committed" ELSE "raised",
                      IF ok THEN {Len(rows) + 1} ELSE {}, << >>)
    /\ UNCHANGED <<capStored, capOut, cacheOpVars, crawlVars>>
    /\ UNCHANGED <<notifierVars, fallbackVars, fanoutVars, webhookVars, windowVars>>

\* GET /analytics/recent?limit=
RecentEndpoint(limit) ==
    /\ \E S \in TopByOpenedAt(rows, RowIds(rows), Capped(limit, 500)) :
          qOut' = Answer("recent", <<limit>>, "200", S, << >>)
    /\ UNCHANGED <<rows, capStored, capOut, cacheOpVars, crawlVars>>
    /\ UNCHANGED <<notifierVars, fallbackVars, fanoutVars, webhookVars, windowVars>>

\* GET /analytics/by-date?start_date=&end_date=
ByDateEndpoint(start_date, end_date) ==
    /\ qOut' = Answer("by-date", <<start_date, end_date>>, "200",
                      {i \in RowIds(rows) : /\ rows[i].date_opened >= start_date
                                            /\ rows[i].date_opened <= end_date},
                      << >>)
    /\ UNCHANGED <<rows, capStored, capOut, cacheOpVars, crawlVars>>
    /\ UNCHANGED <<notifierVars, fallbackVars, fanoutVars, webhookVars, windowVars>>

\* GET /analytics/by-lead/{lead_id}
ByLeadEndpoint(lead_id) ==
    LET opens == {i \in RowIds(rows) : rows[i].lead_id = lead_id}
    IN  /\ qOut' = Answer("by-lead", <<lead_id>>, ByLeadStatus(opens),
                          IF ByLeadStatus(opens) = "200" THEN opens ELSE {}, << >>)
        /\ UNCHANGED <<rows, capStored, capOut, cacheOpVars, crawlVars>>
        /\ UNCHANGED <<notifierVars, fallbackVars, fanoutVars, webhookVars, windowVars>>

\* GET /analytics/export: get_recent_opens(limit=10000) written out as CSV.
ExportEndpoint ==
    /\ \E S \in TopByOpenedAt(rows, RowIds(rows), 10000) :
          qOut' = Answer("export", << >>, "200", S, << >>)
    /\ UNCHANGED <<rows, capStored, capOut, cacheOpVars, crawlVars>>
    /\ UNCHANGED <<notifierVars, fallbackVars, fanoutVars, webhookVars, windowVars>>

\* GET /analytics/top-leads?limit=
TopLeadsEndpoint(limit) ==
    /\ \E g \in TopLeads(rows, Capped(limit, 100)) :
          qOut' = Answer("top-leads", <<limit>>, "200", {}, g)
    /\ UNCHANGED <<rows, capStored, capOut, cacheOpVars, crawlVars>>
    /\ UNCHANGED <<notifierVars, fallbackVars, fanoutVars, webhookVars, windowVars>>

\* GET /analytics/time-of-day
TimeOfDayEndpoint ==
    /\ qOut' = Answer("time-of-day", << >>, "200", {}, OpensByTimeOfDay(rows))
    /\ UNCHANGED <<rows, capStored, capOut, cacheOpVars, crawlVars>>
    /\ UNCHANGED <<notifierVars, fallbackVars, fanoutVars, webhookVars, windowVars>>

\* GET /analytics/day-of-week
DayOfWeekEndpoint ==
    /\ qOut' = Answer("day-of-week", << >>, "200", {}, OpensByDayOfWeek(rows))
    /\ UNCHANGED <<rows, capStored, capOut, cacheOpVars, crawlVars>>
    /\ UNCHANGED <<notifierVars, fallbackVars, fanoutVars, webhookVars, windowVars>>

InitAnalytics ==
    /\ rows = << >>
    /\ qOut = NoAnswer

\* ----------------------------------------------------------- query caps
\* Sizes of the table for the requests that carry a limit; for the top-leads
\* request every row is taken to be of a different lead.
StoredCounts == {0, 100, 101, 500, 501}

\* Values of the query parameter (FastAPI accepts any integer for "int").
RequestValues == {-1, 0, 1, 100, 101, 365, 366, 500, 501}

\* "limit: int = 50", "limit: int = 10", "days: int = 30": the value of the
\* parameter, or its default when the request omits it.
Param(given, value, default) == IF given THEN value ELSE default

CapAnswer(endpoint, given, value, size) ==
    [endpoint |-> endpoint, given |-> given, value |-> value, size |-> size]

NoCap == CapAnswer("none", FALSE, 0, 0)

\* GET /analytics/recent: limit = min(limit, 500);
\* select(...).order_by(...).limit(limit); "count": len(opens)
RecentCount(given, value) ==
    /\ capOut' = CapAnswer("recent", given, Param(given, value, 50),
                           SqlLimit(capStored, Capped(Param(given, value, 50), 500)))
    /\ UNCHANGED <<rows, qOut, capStored, cacheOpVars, crawlVars>>
    /\ UNCHANGED <<notifierVars, fallbackVars, fanoutVars, webhookVars, windowVars>>

\* GET /analytics/top-leads: limit = min(limit, 100); ... LIMIT :limit
TopLeadsCount(given, value) ==
    /\ capOut' = CapAnswer("top-leads", given, Param(given, value, 10),
                           SqlLimit(capStored, Capped(Param(given, value, 10), 100)))
    /\ UNCHANGED <<rows, qOut, capStored, cacheOpVars, crawlVars>>
    /\ UNCHANGED <<notifierVars, fallbackVars, fanoutVars, webhookVars, windowVars>>

\* The days before now that "date_opened >= cutoff_date" lets in, with
\* cutoff_date = now - timedelta(days=days): none when days is negative.
WindowDays(days) == IF days < 0 THEN 0 ELSE days

\* GET /analytics/engagement: days = min(days, 365);
\* get_engagement_metrics(days=days)
EngagementWindow(given, value) ==
    /\ capOut' = CapAnswer("engagement", given, Param(given, value, 30),
                           WindowDays(Capped(Param(given, value, 30), 365)))
    /\ UNCHANGED <<rows, qOut, capStored, cacheOpVars, crawlVars>>
    /\ UNCHANGED <<notifierVars, fallbackVars, fanoutVars, webhookVars, windowVars>>

\* ----------------------------------------------- EventCache operations
\* Identifiers passed to the cache when it is driven on its own.
CacheKeys == {"e1", "e2"}
\* Coroutines calling into the cache.
Callers == {"a", "b"}

\* Variant of the locked blocks with a suspension point inside: the caller
\* is suspended holding the lock.
LockHeldBy(c) == c

\* "async with self._lock:" around a block without an await: acquire() on a
\* free lock returns without suspending, the block runs, __aexit__ releases.
LockAfter(c) == "free"

CacheReturn(op, id, hit, size, oldest) ==
    [op |-> op, id |-> id, hit |-> hit, size |-> size, oldest |-> oldest]

NoCall == CacheReturn("none", NoneId, FALSE, 0, -1)

\* The marks of id since the last clear: first is the mark that created the
\* entry now in the cache, last the latest one.
Marked(m, c, id, t) ==
    [e \in (DOMAIN m) \cup {id} |->
        IF e # id THEN m[e]
        ELSE [first |-> IF id \in DOMAIN c THEN m[id].first ELSE t, last |-> t]]

\* cache.is_notified(id): no lock; cleanup, then membership.
IsNotifiedCall(id) ==
    /\ cache' = CleanupOldEntries(cache, now)
    /\ coRet' = CacheReturn("is_notified", id, IsNotified(cache, id, now), 0, -1)
    /\ UNCHANGED <<coLock, coMarked>>
    /\ UNCHANGED <<now, pc, rid, result, disp, logged, chk, pollQ, pollK, pollDropped,
                   cancelRequested, recent, unlogged, late, observed>>
    /\ UNCHANGED <<fallbackVars, fanoutVars, webhookVars, windowVars, analyticsVars,
                   crawlVars>>

\* await cache.mark_notified(id), called by c.
MarkNotifiedCall(c, id) ==
    /\ coLock = "free"
    /\ cache' = MarkNotified(cache, id, now)
    /\ coLock' = LockAfter(c)
    /\ coMarked' = Marked(coMarked, cache, id, now)
    /\ coRet' = CacheReturn("mark_notified", id, FALSE, 0, -1)
    /\ UNCHANGED <<now, pc, rid, result, disp, logged, chk, pollQ, pollK, pollDropped,
                   cancelRequested, recent, unlogged, late, observed>>
    /\ UNCHANGED <<fallbackVars, fanoutVars, webhookVars, windowVars, analyticsVars,
                   crawlVars>>

\* await cache.clear(), called by c.
ClearCall(c) ==
    /\ coLock = "free"
    /\ cache' = << >>
    /\ coLock' = LockAfter(c)
    /\ coMarked' = << >>
    /\ coRet' = CacheReturn("clear", NoneId, FALSE, 0, -1)
    /\ UNCHANGED <<now, pc, rid, result, disp, logged, chk, pollQ, pollK, pollDropped,
                   cancelRequested, recent, unlogged, late, observed>>
    /\ UNCHANGED <<fallbackVars, fanoutVars, webhookVars, windowVars, analyticsVars,
                   crawlVars>>

\* min(self._cache.values()) if self._cache else None (None as -1)
OldestEntry(c) ==
    IF DOMAIN c = {} THEN -1
    ELSE CHOOSE x \in {c[e] : e \in DOMAIN c} : \A e \in DOMAIN c : x <= c[e]

\* await cache.get_stats(), called by c.
GetStatsCall(c) ==
    /\ coLock = "free"
    /\ coLock' = LockAfter(c)
    /\ coRet' = CacheReturn("get_stats", NoneId, FALSE, Cardinality(DOMAIN cache),
                            OldestEntry(cache))
    /\ UNCHANGED <<cache, coMarked>>
    /\ UNCHANGED <<now, pc, rid, result, disp, logged, chk, pollQ, pollK, pollDropped,
                   cancelRequested, recent, unlogged, late, observed>>
    /\ UNCHANGED <<fallbackVars, fanoutVars, webhookVars, windowVars, analyticsVars,
                   crawlVars>>

InitCacheOps ==
    /\ coLock = "free"
    /\ coRet = NoCall
    /\ coMarked = << >>

\* ------------------------------------------------- FirecrawlScraper
\* Most links in a sitemap answer, and the largest max_pages argument.
MaxLinks == 3
MaxPagesArg == 3

\* FirecrawlScraper.PRIORITY_PATTERNS
PRIORITY_PATTERNS ==
    <<"about", "team", "company", "who-we-are", "products", "services", "solutions",
      "what-we-do", "contact", "careers", "jobs", "customers", "case-studies",
      "testimonials", "blog", "news", "press">>

\* Pages of one site, each by the segments of its URL's path; the host
\* contains none of the patterns.
Home == << >>
SitePages == {Home, <<"about">>, <<"about-us">>, <<"pricing">>, <<"docs", "api">>}

\* "pattern in path": the patterns occurring as substrings of a segment.
PatternsIn(segment) ==
    IF segment \in {"about", "about-us"} THEN {"about"} ELSE {}

\* get_score
GetScore(page) ==
    IF page = Home THEN 1000
    ELSE LET hits == {idx \in 1..Len(PRIORITY_PATTERNS) :
                         \E k \in 1..Len(page) :
                             PRIORITY_PATTERNS[idx] \in PatternsIn(page[k])}
         IN  IF hits # {}
             THEN 900 - ((CHOOSE idx \in hits : \A j \in hits : idx <= j) - 1) * 10
             ELSE IF 500 - Len(page) * 50 > 0 THEN 500 - Len(page) * 50 ELSE 0

RECURSIVE InsertRanked(_, _)
\* One step of the stable sort: x goes behind every page scoring at least
\* as much.
InsertRanked(sorted, x) ==
    IF sorted = << >> THEN <<x>>
    ELSE IF GetScore(Head(sorted)) >= GetScore(x)
         THEN <<Head(sorted)>> \o InsertRanked(Tail(sorted), x)
         ELSE <<x>> \o sorted

RECURSIVE RankPagesByImportance(_)
\* sorted(urls, key=get_score, reverse=True): descending, equal scores in
\* their original order.
RankPagesByImportance(urls) ==
    IF urls = << >> THEN << >>
    ELSE InsertRanked(RankPagesByImportance(SubSeq(urls, 1, Len(urls) - 1)),
                      urls[Len(urls)])

\* s[a:b] of Python for 0 <= a, 0 <= b.
Slice(s, a, b) ==
    IF a >= Len(s) \/ b <= a THEN << >>
    ELSE SubSeq(s, a + 1, IF b < Len(s) THEN b ELSE Len(s))

\* pages_to_scrape of scrape_website: the sitemap request raised (bare
\* except), returned no links, or returned links.
PagesToScrape(url, failed, all_pages, max_pages) ==
    IF failed \/ all_pages = << >> THEN <<url>>
    ELSE <<url>> \o Slice(RankPagesByImportance(all_pages), 1, max_pages)

\* Sitemap answers: lists of distinct pages.
Sitemaps ==
    {s \in UNION {[1..n -> SitePages] : n \in 0..MaxLinks} :
        \A a, b \in DOMAIN s : a # b => s[a] # s[b]}

CrawlInputs ==
    {[url |-> u, failed |-> f, all_pages |-> s, max_pages |-> m] :
        u \in {Home, <<"pricing">>}, f \in BOOLEAN, s \in Sitemaps, m \in 1..MaxPagesArg}

NotScraped == <<"-">>

\* scrape_website(url, max_pages) returns:
\* pages_scraped = pages_to_scrape[:max_pages]
ScrapeWebsite ==
    /\ fcPages = NotScraped
    /\ fcPages' = Slice(PagesToScrape(fcIn.url, fcIn.failed, fcIn.all_pages,
                                      fcIn.max_pages),
                        0, fcIn.max_pages)
    /\ UNCHANGED <<fcIn, analyticsVars, cacheOpVars>>
    /\ UNCHANGED <<notifierVars, fallbackVars, fanoutVars, webhookVars, windowVars>>

InitCrawl ==
    /\ fcIn = [url |-> Home, failed |-> FALSE, all_pages |-> << >>, max_pages |-> 1]
    /\ fcPages = NotScraped

\* The components beside the ingestion paths, idle.
InitSide ==
    /\ InitAnalytics
    /\ capStored = 0
    /\ capOut = NoCap
    /\ InitCacheOps
    /\ InitCrawl

\* --------------------------------------------------------- specifications
\* The notifier service; no LinkedIn request and no direct fan-out call.
Init ==
    /\ InitNotifier
    /\ observed = {}
    /\ InitResolver
    /\ fbCfg = {}
    /\ foHooks = <<"default">>
    /\ InitFanout
    /\ whSecret = ""
    /\ whEpoch = [weekday |-> 2, hour |-> 10]
    /\ InitGate
    /\ InitWindow
    /\ InitSide

Next ==
    \/ Tick
    \/ \E t \in PushTasks, id \in Ids, relevant \in BOOLEAN : WebhookEvent(t, id, relevant)
    \/ \E t \in PushTasks, ok \in BOOLEAN : LeadDone(t, ok)
    \/ \E t \in PushTasks : NotifyDone(t)
    \/ \E t \in PushTasks, ok \in BOOLEAN : LogDone(t, ok)
    \/ SleepDone
    \/ \E evs \in Batches : QueryDone(evs)
    \/ QueryFail
    \/ \E ok \in BOOLEAN : LookupDone(ok)
    \/ PollNotifyDone
    \/ \E ok \in BOOLEAN : PollLogDone(ok)
    \/ Cancel

Spec == Init /\ [][Next]_vars

\* The same program with the dispatch history of every identifier recorded.
InitObserved ==
    /\ InitNotifier
    /\ observed = Ids
    /\ InitResolver
    /\ fbCfg = {}
    /\ foHooks = <<"default">>
    /\ InitFanout
    /\ whSecret = ""
    /\ whEpoch = [weekday |-> 2, hour |-> 10]
    /\ InitGate
    /\ InitWindow
    /\ InitSide

SpecObserved == InitObserved /\ [][Next]_vars

\* A LinkedInScraper built from any settings, resolving one request after another.
InitFallback ==
    /\ InitNotifier
    /\ observed = {}
    /\ InitResolver
    /\ fbCfg \in SUBSET Providers
    /\ foHooks = <<"default">>
    /\ InitFanout
    /\ whSecret = ""
    /\ whEpoch = [weekday |-> 2, hour |-> 10]
    /\ InitGate
    /\ InitWindow
    /\ InitSide

NextFallback ==
    \/ \E req \in Requests : Request(req)
    \/ \E resp \in {"error", "data", "nodata"} : BrightDataDone(resp)
    \/ \E ok \in BOOLEAN : ApifyStartDone(ok)
    \/ \E resp \in {"error", "RUNNING", "SUCCEEDED"} : ApifyStatusDone(resp)
    \/ \E resp \in {"error", "items", "empty"} : ApifyResultsDone(resp)
    \/ \E ok \in BOOLEAN : JoeyismDone(ok)

SpecFallback == InitFallback /\ [][NextFallback]_vars

\* The same resolver when every HTTP request of the Apify path returns:
\* a response or an exception is delivered to each pending await.
SpecFallbackLive ==
    /\ InitFallback
    /\ [][NextFallback]_vars
    /\ WF_vars(\E ok \in BOOLEAN : ApifyStartDone(ok))
    /\ WF_vars(\E resp \in {"error", "RUNNING", "SUCCEEDED"} : ApifyStatusDone(resp))
    /\ WF_vars(\E resp \in {"error", "items", "empty"} : ApifyResultsDone(resp))

\* A DiscordNotifier built from any configuration, called again and again.
InitFanoutOnly ==
    /\ InitNotifier
    /\ observed = {}
    /\ InitResolver
    /\ fbCfg = {}
    /\ foHooks \in HookLists
    /\ InitFanout
    /\ whSecret = ""
    /\ whEpoch = [weekday |-> 2, hour |-> 10]
    /\ InitGate
    /\ InitWindow
    /\ InitSide

NextFanout ==
    \/ \E name \in HookNames \cup {NoName, ""} : Send(name)
    \/ \E outcome \in {"ok", "http_error", "network_error"} : PostDone(outcome)

SpecFanout == InitFanoutOnly /\ [][NextFanout]_vars

\* One webhook task whose notification step is the fan-out itself, over any
\* destination list.
NextDelivery ==
    \/ Tick
    \/ \E id \in Ids, relevant \in BOOLEAN : WebhookEvent("w1", id, relevant)
    \/ \E ok \in BOOLEAN : LeadDone("w1", ok)
    \/ NotifyCall("w1")
    \/ \E outcome \in {"ok", "http_error", "network_error"} : NotifyPosted("w1", outcome)
    \/ \E ok \in BOOLEAN : LogDone("w1", ok)

SpecDelivery == InitFanoutOnly /\ [][NextDelivery]_vars

\* The webhook endpoint with or without a secret, started at any calendar
\* reading, serving one request after another.
InitWebhook ==
    /\ InitNotifier
    /\ observed = {}
    /\ InitResolver
    /\ fbCfg = {}
    /\ foHooks = <<"default">>
    /\ InitFanout
    /\ whSecret \in Secrets
    /\ whEpoch \in Epochs
    /\ InitGate
    /\ InitWindow
    /\ InitSide

NextWebhook ==
    \/ Tick
    \/ \E timestamp \in Timestamps, body \in Bodies,
          how \in {"none", "good", "other_body", "other_key", "non_ascii"} :
          Receive(timestamp, how, body)
    \/ \E resp \in {"error", "named", "unnamed"} : ReceiveLeadDone(resp)
    \/ NotifyDone("w1")
    \/ \E ok \in BOOLEAN : ReceiveLogDone(ok)

SpecWebhook == InitWebhook /\ [][NextWebhook]_vars

\* The endpoint with the awaited calls of a run returning: the Close.io and
\* Discord clients are built with timeouts (30 s and 10 s), so each request
\* returns or raises, and the database write ends in a commit or an error.
SpecWebhookLive ==
    /\ InitWebhook
    /\ [][NextWebhook]_vars
    /\ WF_vars(\E resp \in {"error", "named", "unnamed"} : ReceiveLeadDone(resp))
    /\ WF_vars(NotifyDone("w1"))
    /\ WF_vars(\E ok \in BOOLEAN : ReceiveLogDone(ok))

\* The polling loop's clock alone.
NextWindow ==
    \/ WindowSleepDone
    \/ WindowQuery
    \/ \E d \in TickDurations : WindowTickDone(d)

SpecWindow == Init /\ [][NextWindow]_vars

\* The polling loop alone, with no webhook traffic.  asyncio.sleep returns
\* once the interval has elapsed, so a loop suspended in it is resumed.
NextPoll ==
    \/ Tick
    \/ SleepDone
    \/ \E evs \in Batches : QueryDone(evs)
    \/ QueryFail
    \/ \E ok \in BOOLEAN : LookupDone(ok)
    \/ PollNotifyDone
    \/ \E ok \in BOOLEAN : PollLogDone(ok)
    \/ Cancel

SpecPoll == Init /\ [][NextPoll]_vars /\ WF_vars(SleepDone)

\* The ingestion paths idle, as every specification of a side component
\* starts them.
InitService ==
    /\ InitNotifier
    /\ observed = {}
    /\ InitResolver
    /\ fbCfg = {}
    /\ foHooks = <<"default">>
    /\ InitFanout
    /\ whSecret = ""
    /\ whEpoch = [weekday |-> 2, hour |-> 10]
    /\ InitGate
    /\ InitWindow

\* The analytics store: writes of log_email_open and the query endpoints.
NextAnalytics ==
    \/ \E rec \in EmailOpenLogs, ok \in BOOLEAN : LogEmailOpen(rec, ok)
    \/ \E limit \in {-1, 0, 1, 2} : RecentEndpoint(limit)
    \/ \E s \in {4, 5, 6}, e \in {5, 6} : ByDateEndpoint(s, e)
    \/ \E l \in Leads \cup {OtherLead} : ByLeadEndpoint(l)
    \/ ExportEndpoint
    \/ \E limit \in {0, 1, 10} : TopLeadsEndpoint(limit)
    \/ TimeOfDayEndpoint
    \/ DayOfWeekEndpoint

SpecAnalytics == Init /\ [][NextAnalytics]_vars

\* The requests that carry a limit or a day window, over tables of any size.
InitCaps ==
    /\ InitService
    /\ InitAnalytics
    /\ capStored \in StoredCounts
    /\ capOut = NoCap
    /\ InitCacheOps
    /\ InitCrawl

NextCaps ==
    \/ \E given \in BOOLEAN, value \in RequestValues : RecentCount(given, value)
    \/ \E given \in BOOLEAN, value \in RequestValues : TopLeadsCount(given, value)
    \/ \E given \in BOOLEAN, value \in RequestValues : EngagementWindow(given, value)

SpecCaps == InitCaps /\ [][NextCaps]_vars

\* The cache driven directly: any calls in any order as the clock advances.
NextCache ==
    \/ Tick
    \/ \E id \in CacheKeys : IsNotifiedCall(id)
    \/ \E c \in Callers, id \in CacheKeys : MarkNotifiedCall(c, id)
    \/ \E c \in Callers : ClearCall(c)
    \/ \E c \in Callers : GetStatsCall(c)

SpecCache == Init /\ [][NextCache]_vars

\* scrape_website called once on any url, sitemap answer and max_pages.
InitScrape ==
    /\ InitService
    /\ InitAnalytics
    /\ capStored = 0
    /\ capOut = NoCap
    /\ InitCacheOps
    /\ fcIn \in {i \in CrawlInputs : i.failed => i.all_pages = << >>}
    /\ fcPages = NotScraped

SpecScrape == InitScrape /\ [][ScrapeWebsite]_vars

\* ================================================================ claims
\* C1 (dedup idempotence): an ingestion on either path whose external calls
\* all succeed and that ends by marking its identifier has produced exactly
\* one notification dispatch and one analytics record, and an ingestion of an
\* identifier that begins while an entry marked at most one retention period
\* earlier exists is suppressed and produces neither; so two ingestions of one
\* identifier, one after the other inside the window, yield exactly one
\* dispatch and one record.
C1_DedupIdempotence ==
    \A r \in Runs :
        /\ result[r] = "marked" => disp[r] = 1 /\ logged[r] = 1
        /\ chk[r] = "live" =>
               result[r] = "deduped" /\ disp[r] = 0 /\ logged[r] = 0

\* C1 witness: one ingestion marked the identifier and another one of the
\* same identifier, begun inside the window, was suppressed.
C1_Witness ==
    \E r1 \in Runs, r2 \in Runs :
        /\ r1 # r2
        /\ rid[r1] = rid[r2]
        /\ result[r1] = "marked" /\ disp[r1] = 1 /\ logged[r1] = 1
        /\ result[r2] = "deduped" /\ chk[r2] = "live" /\ disp[r2] = 0

\* A notification for identifier i leaves in this step.
DispatchStep(i) ==
    \E r \in Runs : rid[r] = i /\ disp'[r] = disp[r] + 1

\* C2 (bounded duplicate under races), as claimed: whatever the interleaving
\* of webhook tasks and the polling loop, and with no analytics write for the
\* identifier having failed in the window, no dispatch for an identifier is
\* the third within one retention window.
C2_AtMostOneDuplicate ==
    [][\A i \in Ids :
          DispatchStep(i) /\ i \notin DOMAIN unlogged =>
              Len(InWindow(recent[i], now)) <= 1]_vars

\* C3 (persistence failure does not re-trigger notification), as claimed: an
\* ingestion that begins within the retention window after a notification of
\* the same identifier whose analytics write failed dispatches nothing.
C3_NoRenotifyAfterLogFailure ==
    \A r \in Runs : late[r] => disp[r] = 0

\* C4 (per-item failure isolation), as claimed: no item returned by a tick is
\* discarded because another item of the tick failed, and only cancellation
\* ends the loop.
C4_ItemFailureIsolated ==
    /\ pollDropped = 0
    /\ pc[Poller] = "done" => cancelRequested

\* C5 (prompt cancellation), as claimed: once polling_task.cancel() has been
\* called the loop has exited, at whichever await the task was suspended.
C5_CancelExitsLoop ==
    cancelRequested => pc[Poller] = "done"

\* An ingestion of task r ends by marking its identifier in this step.
MarkStep(r) ==
    /\ result'[r] = "marked"
    /\ logged'[r] = logged[r] + 1

\* C6 (expiry): a dedup check made more than one retention period after the
\* entry was marked reports not-notified, so the ingestion is not suppressed;
\* when its external calls succeed it has dispatched a notification, and the
\* step that ends it leaves a fresh entry carrying the current time.
C6_Expiry ==
    [][/\ \A r \in Runs :
             chk'[r] = "expired" =>
                /\ result'[r] # "deduped"
                /\ result'[r] = "marked" => disp'[r] = 1
       /\ \A r \in Runs :
             MarkStep(r) =>
                rid'[r] \in DOMAIN cache' /\ cache'[rid'[r]] = now']_vars

\* C6 witness: an ingestion that met an expired entry has dispatched and
\* marked the identifier afresh.
C6_Witness ==
    \E r \in Runs :
        /\ chk[r] = "expired"
        /\ result[r] = "marked"
        /\ disp[r] = 1
        /\ rid[r] \in DOMAIN cache
        /\ cache[rid[r]] = now
        /\ now > CACHE_RETENTION_HOURS

\* The providers the chain of a request type is claimed to try, in order.
ClaimedChain(req) ==
    IF req = "company" THEN <<"bright_data", "apify", "joeyism">>
    ELSE IF req = "posts" THEN <<"bright_data", "apify">>
    ELSE IF req = "profile" THEN <<"bright_data">>
    ELSE << >>

\* The claimed chain restricted to the configured providers.
ConfiguredChain(req) == SelectSeq(ClaimedChain(req), LAMBDA p : p \in fbCfg)

IsPrefix(s, t) == Len(s) <= Len(t) /\ SubSeq(t, 1, Len(s)) = s

\* The request ended with a provider's answer taken as its result.
ProviderSucceeded ==
    /\ fbPc = "returned"
    /\ fbInvoked # << >>
    /\ fbInvoked[Len(fbInvoked)] \notin fbFailed

C8_ExhaustionRaises ==
    /\ fbPc \in {"returned", "raised"}
    /\ fbInvoked # << >>
    /\ \A i \in 1..Len(fbInvoked) : fbInvoked[i] \in fbFailed
    => fbPc = "raised" /\ fbOut.kind = "error"

\* C9 (malformed payload counts as provider failure), as claimed: a provider
\* that answered with a success status but no usable payload is counted as
\* failed, and no result tagged with it is returned.
C9_MalformedIsFailure ==
    \A p \in fbMalformed : p \in fbFailed /\ p \notin fbOut.tags

\* The destinations the call is claimed to deliver to: those named by the
\* filter, all of them when no filter is given.
Matching(i) == ~Truthy(foFilter) \/ foHooks[i] = foFilter

\* C10 (fan-out independence): the call never raises; no destination is
\* posted to more than once and none outside the filter is posted to at all;
\* when the call has returned, every matching destination was posted to
\* exactly once, whatever the outcomes at the other destinations.
C10_FanoutIndependence ==
    /\ foPc # "raised"
    /\ \A i \in 1..Len(foHooks) :
          /\ Len(foOutcome[i]) <= 1
          /\ ~Matching(i) => Len(foOutcome[i]) = 0
          /\ foPc = "returned" => (Matching(i) => Len(foOutcome[i]) = 1)

\* C10 witness: the call returned after a failed delivery to one destination
\* and a successful delivery to a later one.
C10_Witness ==
    /\ foPc = "returned"
    /\ \E i \in 1..Len(foHooks), j \in 1..Len(foHooks) :
          /\ i < j
          /\ foOutcome[i] \in {<<"http_error">>, <<"network_error">>}
          /\ foOutcome[j] = <<"ok">>

\* C11 (enrichment failure is recovered with a sentinel), as claimed: on
\* either path the await that resolves the lead name, however it ends, is
\* followed by the notification of the event (or, for a polling tick whose
\* items are all suppressed, by the end of the tick): a failed lookup never
\* ends the ingestion.
C11_LookupFailureRecovered ==
    [][/\ \A t \in PushTasks :
             pc[t] = "lead" /\ pc'[t] # "lead" => pc'[t] = "notify"
       /\ pc[Poller] = "lookup" /\ pc'[Poller] # "lookup" =>
             pc'[Poller] \in {"notify", "sleep"}]_vars

\* A request is received in this step.
ReceiveStep == <<whReq', whResp'>> # <<whReq, whResp>>

\* Both signature headers are present and the supplied signature is the
\* HMAC-SHA256 of timestamp || raw body under the configured secret.
SignedRequest(req) ==
    /\ req.signature.kind # "absent"
    /\ req.timestamp # << >>
    /\ req.signature = HmacSha256(whSecret, Message(req.timestamp, req.body))

\* C12 (authentication gate), as claimed: with a secret configured a request
\* that is not correctly signed is answered with the authentication error
\* and changes nothing (no task started, no notification, no analytics row,
\* no cache change); a correctly signed request, and every request when no
\* secret is configured, is not answered with the authentication error.
C12_AuthGate ==
    [][ReceiveStep =>
          IF whSecret = "" \/ SignedRequest(whReq')
          THEN whResp' # "401"
          ELSE /\ whResp' = "401"
               /\ UNCHANGED <<cache, pc, disp, logged, whRecords>>]_vars

\* The request passed the authentication step.
AuthPassed(req) == whSecret = "" \/ SignedRequest(req)

\* C13 (acceptance is independent of processing): a request that passed
\* authentication with a body that parses is answered with the acceptance
\* acknowledgment, and the answer stands whatever the outcome of the event's
\* processing; process_webhook_event ends filtered, deduped, marked or with
\* the error caught, never by raising.
C13_AcceptanceIndependent ==
    /\ result["w1"] \in {"none", "filtered", "deduped", "marked", "error"}
    /\ whResp # "none" /\ AuthPassed(whReq) /\ whReq.body.json =>
          whResp = "received"

\* C13 witness: the request was acknowledged and its processing failed.
C13_Witness ==
    /\ whResp = "received"
    /\ AuthPassed(whReq)
    /\ whSecret # ""
    /\ pc["w1"] = "idle"
    /\ result["w1"] = "error"

\* The monitored event category as the interface names it: an update of an
\* email activity whose "opens" field changed.
Monitored(body) ==
    /\ body.object_type = "activity.email"
    /\ body.action = "updated"
    /\ "opens" \in body.changed_fields

\* C14 (irrelevant events are a silent no-op): an accepted event of another
\* object type, another action, or without "opens" among its changed fields
\* starts no lead lookup, sends no notification, appends no analytics record,
\* leaves the cache as it was and ends as filtered, not as an error.
C14_IrrelevantNoOp ==
    [][ReceiveStep /\ whResp' = "received" /\ ~Monitored(whReq'.body) =>
          /\ cache' = cache
          /\ pc'["w1"] = "idle"
          /\ disp'["w1"] = 0
          /\ logged'["w1"] = 0
          /\ whRecords' = whRecords
          /\ result'["w1"] = "filtered"]_vars

\* C14 witness: an irrelevant event was filtered while the cache held an entry.
C14_Witness ==
    /\ whResp = "received"
    /\ ~Monitored(whReq.body)
    /\ result["w1"] = "filtered"
    /\ DOMAIN cache # {}

\* The step writes a cache entry for i: it creates one or changes its time.
WritesEntry(i) ==
    /\ i \in DOMAIN cache'
    /\ i \notin DOMAIN cache \/ cache'[i] # cache[i]

\* C15 (pipeline step order): on both paths a run dispatches only after a
\* cache check that found no live entry, appends its analytics record only
\* after its dispatch, and an identifier is written to the cache only by a
\* run that has dispatched and is completing its append for that identifier.
C15_StepOrder ==
    /\ [](\A r \in Runs :
            /\ logged[r] <= disp[r]
            /\ pc[r] = "notify" =>
                  disp[r] = 0 /\ logged[r] = 0 /\ chk[r] \in {"absent", "expired"}
            /\ pc[r] = "log" => disp[r] = 1 /\ logged[r] = 0
            /\ result[r] = "marked" => disp[r] = 1 /\ logged[r] = 1)
    /\ [][/\ \A r \in Runs :
               /\ disp'[r] > disp[r] => pc[r] = "notify" /\ pc'[r] = "log"
               /\ logged'[r] > logged[r] => pc[r] = "log" /\ disp[r] = 1
          /\ \A i \in Ids :
               WritesEntry(i) =>
                  \E r \in Runs : /\ pc[r] = "log"
                                  /\ rid[r] = i
                                  /\ disp[r] = 1
                                  /\ cache'[i] = now]_vars

\* C15 witness: a webhook run and, after the entry expired, a polling run
\* have each gone through check, dispatch, append and mark.
C15_Witness ==
    /\ result["w1"] = "marked"
    /\ result[Poller] = "marked"
    /\ chk[Poller] = "expired"
    /\ "e1" \in DOMAIN cache

\* C16 (end-to-end scenario), as claimed: the webhook for e1 whose payload
\* carries an open at Wednesday 10:00, received at any wall-clock time and
\* processed to the mark, leaves an analytics record whose hour_opened is 10
\* and day_of_week is 2, one dispatch, and e1 notified in the cache as of
\* the time of its mark.
C16_EndToEnd ==
    /\ pc["w1"] = "idle"
    /\ result["w1"] = "marked"
    /\ Monitored(whReq.body)
    /\ whReq.body.id = "e1"
    /\ whReq.body.opened_at = [weekday |-> 2, hour |-> 10]
    => /\ disp["w1"] = 1
       /\ "e1" \in DOMAIN cache
       /\ IsNotified(cache, "e1", cache["e1"])
       /\ whRecords # << >>
       /\ whRecords[Len(whRecords)].email_id = "e1"
       /\ whRecords[Len(whRecords)].hour_opened = 10
       /\ whRecords[Len(whRecords)].day_of_week = 2

\* C17 (polling window coverage), as claimed: the window of each tick, the
\* lookback period ending when its query is issued, starts no later than the
\* moment the previous tick's query was issued, so consecutive windows
\* overlap or abut.
C17_WindowCoverage ==
    \A k \in 1..(Len(winQueries) - 1) :
        WindowStart(winQueries[k + 1]) <= winQueries[k]

\* C18 (polling never crashes): the polling loop ends only in the step in
\* which it is cancelled; a failure inside a tick sends it back to its sleep,
\* and a sleeping loop goes on to another tick's query unless it is cancelled.
C18_PollingNeverCrashes ==
    /\ [][/\ pc'[Poller] = "done" /\ pc[Poller] # "done" =>
                ~cancelRequested /\ cancelRequested'
          /\ result'[Poller] = "error" /\ pc[Poller] = "log" =>
                pc'[Poller] = "sleep"]_vars
    /\ (pc[Poller] = "sleep" ~> pc[Poller] \in {"query", "done"})
    /\ [](pc[Poller] = "done" => cancelRequested)

\* C18 witness: a tick failed at its database write and, not cancelled, the
\* loop has slept and is issuing the next tick's query.
C18_Witness ==
    /\ result[Poller] = "error"
    /\ pc[Poller] = "query"
    /\ ~cancelRequested

\* C19 (terminal states of the push path): every run of
\* process_webhook_event comes to its end, and it ends as filtered, deduped,
\* marked or with its error caught; a monitored event whose identifier has no
\* live cache entry goes on to the lead lookup, and a run whose lookup,
\* notification and database write all succeeded ends marked with its
\* identifier in the cache.
C19_TerminalStates ==
    /\ [](pc["w1"] = "idle" /\ whResp = "received" =>
             result["w1"] \in {"filtered", "deduped", "marked", "error"})
    /\ [](pc["w1"] # "idle" => result["w1"] = "none")
    /\ [][/\ ReceiveStep /\ whResp' = "received" /\ Monitored(whReq'.body)
               /\ ~IsNotified(cache, whReq'.body.id, now) => pc'["w1"] = "lead"
          /\ pc["w1"] = "log" /\ whRecords' # whRecords =>
                /\ pc'["w1"] = "idle"
                /\ result'["w1"] = "marked"
                /\ rid["w1"] \in DOMAIN cache'
                /\ IsNotified(cache', rid["w1"], now)]_vars
    /\ (pc["w1"] # "idle" ~> pc["w1"] = "idle")

\* C19 witness: a run for a monitored event has gone through to the mark.
C19_Witness ==
    /\ pc["w1"] = "idle"
    /\ result["w1"] = "marked"
    /\ Monitored(whReq.body)
    /\ whReq.body.id \in DOMAIN cache
    /\ Len(whRecords) = 1

\* C20 (cache entries are immutable), as claimed: in every step, an
\* identifier that has an entry before and after the step has the same
\* timestamp in both; an entry is deleted or kept, never overwritten.
C20_EntriesImmutable ==
    [][\A i \in (DOMAIN cache) \cap (DOMAIN cache') : cache'[i] = cache[i]]_vars

\* The latest notification call delivered to at least one destination.
Delivered ==
    \E k \in 1..Len(foHooks) :
        \E j \in 1..Len(foOutcome[k]) : foOutcome[k][j] = "ok"

\* C21 (a cache entry records a successful dispatch), as claimed: a step
\* that writes a cache entry for an identifier follows a notification call
\* for it that was delivered to at least one destination.
C21_MarkAfterDelivery ==
    [][\A i \in Ids : WritesEntry(i) => Delivered]_vars

\* C22 (the analytics log is append-only): every step of the store leaves
\* the existing rows as they are; the table changes only in a committed
\* log_email_open, which adds exactly one row at the end, and a write that
\* raised and every query and the export leave it unchanged.
C22_AppendOnly ==
    [][/\ \A i \in RowIds(rows) : i \in RowIds(rows') /\ rows'[i] = rows[i]
       /\ rows' # rows =>
             /\ Len(rows') = Len(rows) + 1
             /\ qOut'.endpoint = "log_email_open"
             /\ qOut'.status = "committed"
             /\ rows'[Len(rows')] = qOut'.arg[1]
       /\ qOut' # qOut /\ qOut'.status = "committed" => Len(rows') = Len(rows) + 1
       /\ qOut'.endpoint # "log_email_open" \/ qOut'.status = "raised" =>
             rows' = rows]_vars

\* C22 witness: two rows were committed and the export then read both.
C22_Witness ==
    /\ Len(rows) = 2
    /\ qOut.endpoint = "export"
    /\ qOut.ids = {1, 2}

RECURSIVE SumOpens(_)
\* The sum of the opens_count values of a grouped answer.
SumOpens(groups) ==
    IF groups = << >> THEN 0 ELSE Head(groups).opens_count + SumOpens(Tail(groups))

\* The label of a weekday index, Monday = 0 .. Sunday = 6.
DayLabel(i) ==
    CASE i = 0 -> "Monday" [] i = 1 -> "Tuesday" [] i = 2 -> "Wednesday"
      [] i = 3 -> "Thursday" [] i = 4 -> "Friday" [] i = 5 -> "Saturday"
      [] OTHER -> "Sunday"

\* The grouped answer tallies the stored rows by the given column.
TalliesBy(groups, column(_)) ==
    /\ SumOpens(groups) = Len(rows)
    /\ \A k \in 1..Len(groups) :
          groups[k].opens_count =
              Cardinality({i \in RowIds(rows) : column(rows[i]) = groups[k].bucket})
    /\ \A a, b \in 1..Len(groups) : a # b => groups[a].bucket # groups[b].bucket
    /\ \A i \in RowIds(rows) : \E k \in 1..Len(groups) : groups[k].bucket = column(rows[i])

\* C23 (aggregation correctness): over the N stored rows the counts of the
\* hour-of-day answer sum to N, and so do those of the day-of-week answer;
\* each bucket's count is the number of rows with that hour_opened
\* (day_of_week), and weekday index i carries the label Monday = 0 ..
\* Sunday = 6.
C23_Aggregation ==
    /\ qOut.endpoint = "time-of-day" =>
          TalliesBy(qOut.groups, LAMBDA r : r.hour_opened)
    /\ qOut.endpoint = "day-of-week" =>
          /\ TalliesBy(qOut.groups, LAMBDA r : r.day_of_week)
          /\ \A k \in 1..Len(qOut.groups) :
                qOut.groups[k].name = DayLabel(qOut.groups[k].bucket)

\* C23 witness: three rows of one lead on a Sunday and a Monday, grouped by
\* weekday into two buckets.
C23_Witness ==
    /\ qOut.endpoint = "day-of-week"
    /\ Len(rows) = 3
    /\ \A i \in RowIds(rows) : rows[i].lead_id = "L1"
    /\ Len(qOut.groups) = 2

\* C24 (query caps), as claimed: whatever integer the request carries, the
\* recent answer holds at most 500 records, the top-leads answer at most 100
\* leads, and the engagement window is at most 365 days, 30 when the
\* parameter is omitted.
C24_QueryCaps ==
    /\ capOut.endpoint = "recent" => capOut.size <= 500
    /\ capOut.endpoint = "top-leads" => capOut.size <= 100
    /\ capOut.endpoint = "engagement" =>
          /\ capOut.size <= 365
          /\ ~capOut.given => capOut.size = 30

IsNotifiedStep ==
    /\ coRet'.op = "is_notified"
    /\ coRet' # coRet \/ cache' # cache

\* C26 (is_notified purges, then reports): a call of is_notified removes
\* exactly the entries older than the retention period and keeps the others
\* as they are, then returns whether id still has an entry; no step but
\* clear removes a younger entry; hence id is reported notified exactly when
\* its latest mark since the last clear is at most one retention period old.
C26_PurgeThenReport ==
    [][/\ \A i \in (DOMAIN cache) \ (DOMAIN cache') :
             coRet'.op = "clear" \/ now - cache[i] > CACHE_RETENTION_HOURS
       /\ IsNotifiedStep =>
             /\ DOMAIN cache' =
                   {i \in DOMAIN cache : now - cache[i] <= CACHE_RETENTION_HOURS}
             /\ \A i \in DOMAIN cache' : cache'[i] = cache[i]
             /\ coRet'.hit = (coRet'.id \in DOMAIN cache')
             /\ coRet'.hit =
                   (/\ coRet'.id \in DOMAIN coMarked
                    /\ now - coMarked[coRet'.id].last <= CACHE_RETENTION_HOURS)]_vars

\* C26 witness: e1 was marked, outlived the retention period and was purged
\* by the call that reported it not notified, while the younger e2 stayed.
C26_Witness ==
    /\ coRet.op = "is_notified"
    /\ coRet.id = "e1"
    /\ ~coRet.hit
    /\ "e1" \in DOMAIN coMarked
    /\ DOMAIN cache = {"e2"}

\* The step is a call of mark_notified for an identifier already present.
RemarkStep ==
    /\ coRet'.op = "mark_notified"
    /\ coRet' # coRet \/ cache' # cache
    /\ coRet'.id \in DOMAIN cache

\* C27 (mark_notified is idempotent and resets the clock): marking an
\* identifier that is present leaves the set of cached identifiers and every
\* other entry unchanged and sets its timestamp to the time of this mark;
\* afterwards it is reported notified until one retention period after the
\* latest mark, whenever the first mark was.
C27_RemarkResetsClock ==
    [][/\ RemarkStep =>
             /\ DOMAIN cache' = DOMAIN cache
             /\ \A e \in DOMAIN cache : e # coRet'.id => cache'[e] = cache[e]
             /\ cache'[coRet'.id] = now
       /\ IsNotifiedStep /\ coRet'.id \in DOMAIN coMarked /\ coRet'.id \in DOMAIN cache =>
             coRet'.hit =
                (now <= coMarked[coRet'.id].last + CACHE_RETENTION_HOURS)]_vars

\* C27 witness: e1 was marked, marked again while present, and is reported
\* notified at a time when its first mark is older than the retention period.
C27_Witness ==
    /\ coRet.op = "is_notified"
    /\ coRet.id = "e1"
    /\ coRet.hit
    /\ "e1" \in DOMAIN coMarked
    /\ now - coMarked["e1"].first > CACHE_RETENTION_HOURS

\* C28 (cache lock discipline): between any two steps of the event loop the
\* lock is free, so a call of mark_notified, clear or get_stats never waits
\* for it; every entry the cache holds is a completed mark, with that mark's
\* time; and the purge of is_notified removes only entries whose latest
\* completed mark is older than the retention period.
C28_LockDiscipline ==
    /\ [](coLock = "free")
    /\ [](\A i \in DOMAIN cache :
             i \in DOMAIN coMarked /\ cache[i] = coMarked[i].last)
    /\ [][IsNotifiedStep =>
             \A i \in (DOMAIN cache) \ (DOMAIN cache') :
                 now - coMarked[i].last > CACHE_RETENTION_HOURS]_vars

\* C28 witness: with both identifiers marked, get_stats took the lock, read
\* two entries and released it.
C28_Witness ==
    /\ coRet.op = "get_stats"
    /\ coRet.size = 2
    /\ coRet.oldest = 0
    /\ coLock = "free"
    /\ now = 1

\* The awaits of an Apify call: the POST that starts the run, the status
\* loop, the dataset request.
ApifyAwaits == {"apify_start", "apify_poll", "apify_results"}

\* C29 (bounded Apify polling): a run is asked for its status at most 30
\* times and the loop is only waiting while fewer than 30 requests were
\* made; the dataset request is entered only from the loop, once the run
\* reported SUCCEEDED or the thirtieth status arrived, and it is made once:
\* the step after it leaves it; and when every HTTP request returns, an
\* Apify call that has begun comes to an end.
C29_BoundedPolling ==
    /\ [](fbAttempts <= 30)
    /\ [](fbPc = "apify_poll" => fbAttempts < 30)
    /\ [][/\ fbPc = "apify_results" => fbPc' # "apify_results"
          /\ (fbPc' = "apify_results" /\ fbPc # "apify_results")
                => /\ fbPc = "apify_poll"
                   /\ fbAttempts' = fbAttempts + 1
                   /\ fbSucceeded' \/ fbAttempts' = 30]_vars
    /\ (fbPc \in ApifyAwaits) ~> (fbPc \notin ApifyAwaits)

\* C29 witness: the run never reported SUCCEEDED, thirty status requests
\* were made, the dataset was fetched and the call returned.
C29_Witness ==
    /\ fbAttempts = 30
    /\ ~fbSucceeded
    /\ fbPc = "returned"
    /\ fbInvoked = <<"apify">>
    /\ fbFailed = {}

\* The selection the sentence describes: the given URL, then the ranked
\* sitemap pages other than it, best first, cut at max_pages; the given URL
\* alone when the sitemap request failed or returned no links.
GivenThenBestRanked(in) ==
    IF in.failed \/ in.all_pages = << >> THEN <<in.url>>
    ELSE Slice(<<in.url>> \o SelectSeq(RankPagesByImportance(in.all_pages),
                                       LAMBDA p : p # in.url),
               0, in.max_pages)

\* C30 (page selection): once scrape_website has returned, pages_scraped is
\* the given URL followed by the best-ranked other sitemap pages in rank
\* order, no more than max_pages in all, and only the given URL when the
\* sitemap request failed or returned no links.
C30_PageSelection ==
    fcPages # NotScraped => fcPages = GivenThenBestRanked(fcIn)
====
